---- MODULE Spec2Model ----
(***************************************************************************)
(* Model of iec_62320/part_1/sentences.py: the TSA sentence formatter      *)
(* (TSASentence.string) and the TSA-VDM sentence generator                 *)
(* (SentenceGenerator.generate_tsa_vdm) with its rolling VDM sequential    *)
(* identifier.                                                             *)
(*                                                                         *)
(* Text is modelled as a sequence of character codes (ASCII), so that the  *)
(* formatting and the checksum are computed, not assumed.                  *)
(***************************************************************************)
EXTENDS Integers, Sequences, FiniteSets, TLC

VARIABLES
    talker_id,          \* SentenceGenerator.talker_id
    vdm_sequential_id,  \* SentenceGenerator.vdm_sequential_id
    call,               \* the last generate_tsa_vdm call: inputs, collaborator call, outcome
    prev,               \* the generate_tsa_vdm call before the last one
    n_multi,            \* history: number of calls whose message gave more than one VDM sentence
    sentence,           \* a TSASentence object handed to the formatter
    s                   \* the value of sentence.string, <<>> before it is read

vars == <<talker_id, vdm_sequential_id, call, prev, n_multi, sentence, s>>

-----------------------------------------------------------------------------
(* Bounds of the model *)

\* generate_tsa_vdm calls with more than one VDM sentence that a behaviour makes
MaxCalls == 10
\* the largest number of VDM sentences the fragmentation collaborator returns
MaxFragments == 2
\* the largest vdm_link of a TSASentence handed to the formatter
MaxLink == 11
\* the largest priority of a TSASentence handed to the formatter
MaxPriority == 3

-----------------------------------------------------------------------------
(* Text *)

\* "TSA"
formatter_code == <<84, 83, 65>>

\* the empty string, default of unique_id, utc_hhmm and start_slot
EmptyStr == <<>>

\* default of TSASentence.priority
DefaultPriority == 2

\* default of talker_id: "AI"
DefaultTalkerId == <<65, 73>>

RECURSIVE Xor(_, _)
\* bitwise exclusive-or of two naturals (Python's ^ on non-negative ints)
Xor(a, b) ==
    IF a = 0 THEN b
    ELSE IF b = 0 THEN a
    ELSE (((a % 2) + (b % 2)) % 2) + (2 * Xor(a \div 2, b \div 2))

RECURSIVE iec_checksum(_)
\* the checksum collaborator: exclusive-or of the byte values of the text given
iec_checksum(text) ==
    IF text = <<>> THEN 0
    ELSE Xor(iec_checksum(SubSeq(text, 1, Len(text) - 1)), text[Len(text)])

RECURSIVE DecDigits(_)
\* decimal digits of a natural, most significant first, no leading zeros
DecDigits(n) ==
    IF n < 10 THEN <<48 + n>>
    ELSE DecDigits(n \div 10) \o <<48 + (n % 10)>>

\* "{:d}".format(n)
FormatD(n) == IF n < 0 THEN <<45>> \o DecDigits(0 - n) ELSE DecDigits(n)

\* "{:s}".format(x) of a str is x itself
FormatS(x) == x

\* one uppercase hexadecimal digit
HexDigit(d) == IF d < 10 THEN 48 + d ELSE 55 + d

RECURSIVE HexDigits(_)
\* uppercase hexadecimal digits of a natural, no leading zeros
HexDigits(n) ==
    IF n < 16 THEN <<HexDigit(n)>>
    ELSE HexDigits(n \div 16) \o <<HexDigit(n % 16)>>

\* "{:>02X}".format(n), n >= 0: right-aligned in width 2, filled with "0"
Format02X(n) ==
    LET h == HexDigits(n)
    IN  IF Len(h) < 2 THEN <<48>> \o h ELSE h

-----------------------------------------------------------------------------
(* TSASentence *)

\* TSASentence.__init__
TSASentence(vdm_link, channel, talker, unique_id, utc_hhmm, start_slot, priority) ==
    [vdm_link   |-> vdm_link,
     channel    |-> channel,
     talker_id  |-> talker,
     unique_id  |-> unique_id,
     utc_hhmm   |-> utc_hhmm,
     start_slot |-> start_slot,
     priority   |-> priority]

\* the text TSASentence.string builds before the checksum is appended
TSABody(t) ==
    <<36>> \o FormatS(t.talker_id) \o FormatS(formatter_code)
        \o <<44>> \o FormatS(t.unique_id)
        \o <<44>> \o FormatD(t.vdm_link)
        \o <<44>> \o FormatS(t.channel)
        \o <<44>> \o FormatS(t.utc_hhmm)
        \o <<44>> \o FormatS(t.start_slot)
        \o <<44>> \o FormatD(t.priority)

\* a mutation of TSAString: link and channel written in the other order
TSAString_Swapped(t) ==
    LET b == <<36>> \o FormatS(t.talker_id) \o FormatS(formatter_code)
                 \o <<44>> \o FormatS(t.unique_id)
                 \o <<44>> \o FormatS(t.channel)
                 \o <<44>> \o FormatD(t.vdm_link)
                 \o <<44>> \o FormatS(t.utc_hhmm)
                 \o <<44>> \o FormatS(t.start_slot)
                 \o <<44>> \o FormatD(t.priority)
    IN  b \o <<42>> \o Format02X(iec_checksum(b)) \o <<13, 10>>

\* TSASentence.string
TSAString(t) ==
    LET b == TSABody(t)
        checksum == iec_checksum(b)
    IN  b \o <<42>> \o Format02X(checksum) \o <<13, 10>>

-----------------------------------------------------------------------------
(* Inputs *)

\* "AI", "BS"
TalkerIds == {DefaultTalkerId, <<66, 83>>}
\* "A", "B"
Channels == {<<65>>, <<66>>}
\* "", "X"
UniqueIds == {EmptyStr, <<88>>}
\* "", "1200"
UtcHhmms == {EmptyStr, <<49, 50, 48, 48>>}
\* "", "7"
StartSlots == {EmptyStr, <<55>>}
\* the requested transmission time, <<utc_hhmm, start_slot>>: not given, or the
\* frame and the slot given together
TransmitTimes == {<<EmptyStr, EmptyStr>>, <<<<49, 50, 48, 48>>, <<55>>>>}
\* highest and lowest transmission priority
Priorities == {0, DefaultPriority}

\* errors the fragmentation collaborator raises on a malformed bitstream
Errors == {"ValueError", "ReadError"}

\* An AIS message bitstream, named by what fragmentation makes of it: the number
\* of VDM sentences it needs, or the error it raises.
Messages ==
    [kind : {"ok"}, fragments : 0..MaxFragments, error : {"none"}]
        \cup [kind : {"bad"}, fragments : {0}, error : Errors]

-----------------------------------------------------------------------------
(* The fragmentation collaborator *)

\* one VDM sentence: fragment i of n of a message
VDMSentence(i, n, sequential_id, channel, talker) ==
    [fragment      |-> i,
     fragments     |-> n,
     sequential_id |-> sequential_id,
     channel       |-> channel,
     talker_id     |-> talker]

\* ais_msg_bs_to_vdm_sentences: the ordered VDM sentences of a message, or an error
ais_msg_bs_to_vdm_sentences(msg_bs, sequential_id, channel, talker) ==
    IF msg_bs.kind = "bad"
    THEN [raised |-> TRUE, error |-> msg_bs.error, sentences |-> <<>>]
    ELSE [raised    |-> FALSE,
          error     |-> "none",
          sentences |-> [i \in 1..msg_bs.fragments |->
                            VDMSentence(i, msg_bs.fragments, sequential_id,
                                        channel, talker)]]

-----------------------------------------------------------------------------
(* SentenceGenerator *)

\* SentenceGenerator.__init__
SentenceGenerator(talker) == [talker_id |-> talker, vdm_sequential_id |-> 0]

\* a mutation of NextSequentialId: every message takes a sequence slot
NextSequentialId_Always(id, vdm_sentences) ==
    IF Len(vdm_sentences) >= 1 THEN (id + 1) % 10 ELSE id

\* a mutation of NextSequentialId: the counter does not wrap
NextSequentialId_NoWrap(id, vdm_sentences) ==
    IF Len(vdm_sentences) > 1 THEN id + 1 ELSE id

\* the sequential ID after a call that got vdm_sentences from the collaborator
NextSequentialId(id, vdm_sentences) ==
    IF Len(vdm_sentences) > 1 THEN (id + 1) % 10 ELSE id

\* a mutation of SentenceGroups: the VDM sentences in reverse order
SentenceGroups_Reversed(tsa_sentence, vdm_sentences) ==
    << <<tsa_sentence>>,
       [i \in 1..Len(vdm_sentences) |-> vdm_sentences[Len(vdm_sentences) + 1 - i]] >>

\* the value returned: [[tsa_sentence]] + [vdm_sentences]
SentenceGroups(tsa_sentence, vdm_sentences) ==
    << <<tsa_sentence>>, vdm_sentences >>

\* a mutation of generate_tsa_vdm: the sequential ID is advanced before the
\* collaborator is called, and the TSA sentence takes the advanced value
generate_tsa_vdm_EarlyAdvance(self, msg_bs, channel, unique_id, utc_hhmm, start_slot, priority) ==
    LET advanced == [self EXCEPT !.vdm_sequential_id = (@ + 1) % 10]
        tsa_sentence == TSASentence(advanced.vdm_sequential_id, channel, self.talker_id,
                                    EmptyStr, EmptyStr, EmptyStr, DefaultPriority)
        collab == [msg_bs        |-> msg_bs,
                   sequential_id |-> self.vdm_sequential_id,
                   channel       |-> channel,
                   talker_id     |-> self.talker_id]
        out == ais_msg_bs_to_vdm_sentences(collab.msg_bs, collab.sequential_id,
                                           collab.channel, collab.talker_id)
    IN  IF out.raised
        THEN [self |-> advanced, returned |-> FALSE, exc |-> out.error, ret |-> <<>>,
              tsa |-> tsa_sentence, collab |-> collab, vdm |-> <<>>]
        ELSE [self |-> IF Len(out.sentences) > 1 THEN advanced ELSE self,
              returned |-> TRUE, exc |-> "none",
              ret |-> SentenceGroups(tsa_sentence, out.sentences),
              tsa |-> tsa_sentence, collab |-> collab, vdm |-> out.sentences]

\* a mutation of generate_tsa_vdm: an empty fragmentation result is an error
generate_tsa_vdm_RejectEmpty(self, msg_bs, channel, unique_id, utc_hhmm, start_slot, priority) ==
    LET tsa_sentence == TSASentence(self.vdm_sequential_id, channel, self.talker_id,
                                    EmptyStr, EmptyStr, EmptyStr, DefaultPriority)
        collab == [msg_bs        |-> msg_bs,
                   sequential_id |-> self.vdm_sequential_id,
                   channel       |-> channel,
                   talker_id     |-> self.talker_id]
        out == ais_msg_bs_to_vdm_sentences(collab.msg_bs, collab.sequential_id,
                                           collab.channel, collab.talker_id)
    IN  IF out.raised \/ Len(out.sentences) = 0
        THEN [self |-> self, returned |-> FALSE,
              exc |-> IF out.raised THEN out.error ELSE "ValueError", ret |-> <<>>,
              tsa |-> tsa_sentence, collab |-> collab, vdm |-> <<>>]
        ELSE [self |-> [self EXCEPT !.vdm_sequential_id =
                                        NextSequentialId(@, out.sentences)],
              returned |-> TRUE, exc |-> "none",
              ret |-> SentenceGroups(tsa_sentence, out.sentences),
              tsa |-> tsa_sentence, collab |-> collab, vdm |-> out.sentences]

\* SentenceGenerator.generate_tsa_vdm. The value is the generator after the call
\* (self), whether the call returned, the error that left it (exc), the value
\* returned (ret), and what the call built on the way: the TSA sentence, the
\* arguments of the collaborator call and the VDM sentences it gave back.
\* unique_id, utc_hhmm, start_slot and priority are accepted and not used: the
\* TSA sentence is built from vdm_link, channel and talker_id alone.
generate_tsa_vdm(self, msg_bs, channel, unique_id, utc_hhmm, start_slot, priority) ==
    LET tsa_sentence == TSASentence(self.vdm_sequential_id, channel, self.talker_id,
                                    EmptyStr, EmptyStr, EmptyStr, DefaultPriority)
        collab == [msg_bs        |-> msg_bs,
                   sequential_id |-> self.vdm_sequential_id,
                   channel       |-> channel,
                   talker_id     |-> self.talker_id]
        out == ais_msg_bs_to_vdm_sentences(collab.msg_bs, collab.sequential_id,
                                           collab.channel, collab.talker_id)
    IN  IF out.raised
        THEN [self |-> self, returned |-> FALSE, exc |-> out.error, ret |-> <<>>,
              tsa |-> tsa_sentence, collab |-> collab, vdm |-> <<>>]
        ELSE [self |-> [self EXCEPT !.vdm_sequential_id =
                                        NextSequentialId(@, out.sentences)],
              returned |-> TRUE, exc |-> "none",
              ret |-> SentenceGroups(tsa_sentence, out.sentences),
              tsa |-> tsa_sentence, collab |-> collab, vdm |-> out.sentences]

-----------------------------------------------------------------------------
(* State machine of the generator *)

\* no call yet
NoCall == [state |-> "none"]

\* the arguments of a generate_tsa_vdm call
Args(msg_bs, channel, unique_id, utc_hhmm, start_slot, priority) ==
    [msg_bs     |-> msg_bs,
     channel    |-> channel,
     unique_id  |-> unique_id,
     utc_hhmm   |-> utc_hhmm,
     start_slot |-> start_slot,
     priority   |-> priority]

\* what the caller keeps of an earlier call: whether it returned, the link of its
\* TSA sentence and the number of its VDM sentences
Summary(c) ==
    IF c.state = "none" THEN NoCall
    ELSE [state |-> c.state, vdm_link |-> c.tsa.vdm_link, n_vdm |-> Len(c.vdm)]

\* a SentenceGenerator is constructed; no TSASentence is being formatted
Init ==
    /\ talker_id \in TalkerIds
    /\ vdm_sequential_id = SentenceGenerator(talker_id).vdm_sequential_id
    /\ call = NoCall
    /\ prev = NoCall
    /\ n_multi = 0
    /\ sentence = TSASentence(0, <<65>>, DefaultTalkerId, EmptyStr, EmptyStr,
                              EmptyStr, DefaultPriority)
    /\ s = <<>>

\* one call of generate_tsa_vdm on the generator, with any arguments
Generate ==
    /\ n_multi < MaxCalls
    /\ \E msg_bs \in Messages, channel \in Channels, unique_id \in UniqueIds,
          time \in TransmitTimes, priority \in Priorities :
          LET utc_hhmm == time[1]
              start_slot == time[2]
              self == [talker_id |-> talker_id, vdm_sequential_id |-> vdm_sequential_id]
              r == generate_tsa_vdm(self, msg_bs, channel, unique_id, utc_hhmm,
                                    start_slot, priority)
          IN  /\ talker_id' = r.self.talker_id
              /\ vdm_sequential_id' = r.self.vdm_sequential_id
              /\ call' = [state  |-> IF r.returned THEN "returned" ELSE "raised",
                          args   |-> Args(msg_bs, channel, unique_id, utc_hhmm,
                                          start_slot, priority),
                          before |-> self,
                          tsa    |-> r.tsa,
                          collab |-> r.collab,
                          vdm    |-> r.vdm,
                          ret    |-> r.ret,
                          exc    |-> r.exc]
              /\ prev' = Summary(call)
              /\ n_multi' = IF msg_bs.kind = "ok" /\ msg_bs.fragments > 1
                            THEN n_multi + 1 ELSE n_multi
    /\ UNCHANGED <<sentence, s>>

Next == Generate

Spec == Init /\ [][Next]_vars

-----------------------------------------------------------------------------
(* State machine of the formatter *)

\* "", "X", "BS01"
FmtUniqueIds == UniqueIds \cup {<<66, 83, 48, 49>>}
\* "", "7", "2249"
FmtStartSlots == StartSlots \cup {<<50, 50, 52, 57>>}

\* the TSASentence objects handed to the formatter
Sentences ==
    { TSASentence(l, c, t, u, h, b, p) :
        l \in -1..MaxLink, c \in Channels, t \in TalkerIds, u \in FmtUniqueIds,
        h \in UtcHhmms, b \in FmtStartSlots, p \in 0..MaxPriority }

\* a TSASentence is constructed; its string has not been read
InitFmt ==
    /\ talker_id = DefaultTalkerId
    /\ vdm_sequential_id = SentenceGenerator(talker_id).vdm_sequential_id
    /\ call = NoCall
    /\ prev = NoCall
    /\ n_multi = 0
    /\ sentence \in Sentences
    /\ s = <<>>

\* the string property of the sentence is read
ReadString ==
    /\ s = <<>>
    /\ s' = TSAString(sentence)
    /\ UNCHANGED <<talker_id, vdm_sequential_id, call, prev, n_multi, sentence>>

NextFmt == ReadString

SpecFmt == InitFmt /\ [][NextFmt]_vars

-----------------------------------------------------------------------------
(* Properties of the generator, checked under Spec *)

\* the sequential ID the generator had when the last call started
Before == call.before.vdm_sequential_id

\* C1: a call that got more than one VDM sentence from the collaborator takes the
\* sequential ID from c to (c + 1) mod 10, a call that got exactly one leaves it
\* at c, and no call advances it more than once.
SequenceAdvanceLaw ==
    call.state # "none" =>
        /\ (call.state = "returned" /\ Len(call.vdm) > 1
                => vdm_sequential_id = (Before + 1) % 10)
        /\ (call.state = "returned" /\ Len(call.vdm) = 1
                => vdm_sequential_id = Before)
        /\ vdm_sequential_id \in {Before, (Before + 1) % 10}

\* a one-sentence call that follows a multi-sentence call
SequenceAdvanceWitness ==
    /\ call.state = "returned" /\ Len(call.vdm) = 1
    /\ prev.state = "returned" /\ prev.n_vdm > 1
    /\ vdm_sequential_id = 1

\* C2: the sequential ID is in 0..9 and equals the number of multi-sentence
\* calls made so far, modulo 10: 0 at the start, 0 after a multi-sentence call
\* at 9, 0 again after ten multi-sentence calls.
WraparoundLaw ==
    /\ vdm_sequential_id \in 0..9
    /\ vdm_sequential_id = n_multi % 10
    /\ (call.state = "none" => vdm_sequential_id = 0)
    /\ (call.state = "returned" /\ Len(call.vdm) > 1 /\ Before = 9
            => vdm_sequential_id = 0)

\* ten multi-sentence calls have been made, the last of them at 9
WraparoundWitness ==
    /\ n_multi = 10
    /\ call.state = "returned" /\ Len(call.vdm) > 1 /\ Before = 9
    /\ vdm_sequential_id = 0

\* C3: the link of the TSA sentence and the sequential ID given to the
\* collaborator are the sequential ID the generator had before the call, and the
\* TSA sentence carries the channel of the call and the talker ID of the
\* generator; from 3 with two VDM sentences: link 3, collaborator 3, then 4.
LinkCorrelation ==
    /\ call.state # "none" =>
        /\ call.collab.sequential_id = Before
        /\ call.tsa.vdm_link = Before
    /\ call.state = "returned" =>
        /\ call.ret[1][1].vdm_link = Before
        /\ call.ret[1][1].channel = call.args.channel
        /\ call.ret[1][1].talker_id = call.before.talker_id
        /\ (Before = 3 /\ Len(call.vdm) = 2 =>
                /\ call.ret[1][1].vdm_link = 3
                /\ call.collab.sequential_id = 3
                /\ vdm_sequential_id = 4)

\* the scenario: a two-sentence message on channel "B" at sequential ID 3, on a
\* generator whose talker ID is not the default of TSASentence
LinkCorrelationWitness ==
    /\ call.state = "returned" /\ Len(call.vdm) = 2
    /\ Before = 3
    /\ call.args.channel = <<66>>
    /\ call.before.talker_id # DefaultTalkerId
    /\ vdm_sequential_id = 4

\* C4: a call that returns gives two groups: the first holds the TSA sentence
\* alone, the second the VDM sentences of the collaborator, as many and in the
\* same order.
GroupingShape ==
    call.state = "returned" =>
        /\ Len(call.ret) = 2
        /\ Len(call.ret[1]) = 1
        /\ call.ret[1][1] = call.tsa
        /\ Len(call.ret[2]) = call.args.msg_bs.fragments
        /\ \A i \in 1..Len(call.ret[2]) : call.ret[2][i].fragment = i
        /\ call.ret[2] = ais_msg_bs_to_vdm_sentences(
                             call.collab.msg_bs, call.collab.sequential_id,
                             call.collab.channel, call.collab.talker_id).sentences

\* a call returned a message of two VDM sentences
GroupingShapeWitness ==
    /\ call.state = "returned"
    /\ Len(call.ret) = 2
    /\ Len(call.ret[2]) = 2

\* C7: when the collaborator raises, the same error leaves generate_tsa_vdm,
\* nothing is returned, the sequential ID and the talker ID are as before the
\* call, and the next call uses the same link.
CollaboratorError ==
    /\ call.state = "raised" =>
        /\ call.exc = call.args.msg_bs.error
        /\ call.exc \in Errors
        /\ call.ret = <<>>
        /\ vdm_sequential_id = Before
        /\ talker_id = call.before.talker_id
    /\ (prev.state = "raised" /\ call.state # "none"
            => call.tsa.vdm_link = prev.vdm_link)

\* a call raised away from sequential ID 0, and a call followed a raising call
CollaboratorErrorWitness ==
    /\ call.state = "raised"
    /\ prev.state = "raised"
    /\ Before = 3

\* C8: the TSA sentence of group 1 carries the unique_id, utc_hhmm, start_slot
\* and priority passed to generate_tsa_vdm.
TransmissionParametersReachTSA ==
    call.state = "returned" =>
        /\ call.ret[1][1].unique_id = call.args.unique_id
        /\ call.ret[1][1].utc_hhmm = call.args.utc_hhmm
        /\ call.ret[1][1].start_slot = call.args.start_slot
        /\ call.ret[1][1].priority = call.args.priority

\* the collaborator gave no VDM sentence in the last call
EmptyResult ==
    /\ call.state # "none"
    /\ call.args.msg_bs.kind = "ok"
    /\ call.args.msg_bs.fragments = 0

\* C9 as stated: when the collaborator returns no VDM sentence,
\* generate_tsa_vdm fails with an error.
EmptyResultFails == EmptyResult => call.state = "raised"

\* C9, amended: when the collaborator returns no VDM sentence, generate_tsa_vdm
\* raises nothing: it returns the TSA sentence group and an empty VDM group, and
\* leaves the sequential ID as it was.
EmptyResultReturned ==
    EmptyResult =>
        /\ call.state = "returned"
        /\ call.exc = "none"
        /\ call.ret = << <<call.tsa>>, <<>> >>
        /\ vdm_sequential_id = Before

\* an empty fragmentation result away from sequential ID 0
EmptyResultWitness == EmptyResult /\ Before = 2

\* C10 as stated: the links of the TSA sentences of two consecutive calls differ.
ConsecutiveDistinguished ==
    prev.state = "returned" /\ call.state = "returned"
        => call.tsa.vdm_link # prev.vdm_link

\* C10, amended: of two consecutive calls that return, the second has the link
\* (l + 1) mod 10 when the first, with link l, had more than one VDM sentence,
\* and the same link l when it had one or none.
ConsecutiveLinkLaw ==
    prev.state = "returned" /\ call.state = "returned" =>
        /\ (prev.n_vdm > 1 => call.ret[1][1].vdm_link = (prev.vdm_link + 1) % 10)
        /\ (prev.n_vdm <= 1 => call.ret[1][1].vdm_link = prev.vdm_link)

\* a call after a one-sentence call, both at link 9
ConsecutiveLinkWitness ==
    /\ prev.state = "returned" /\ prev.n_vdm = 1 /\ prev.vdm_link = 9
    /\ call.state = "returned" /\ call.ret[1][1].vdm_link = 9

-----------------------------------------------------------------------------
(* Properties of the formatter, checked under SpecFmt *)

\* "*"
StarPos(text) == CHOOSE i \in 1..Len(text) : text[i] = 42

\* the value of one hexadecimal digit
HexVal(c) == IF c <= 57 THEN c - 48 ELSE c - 55

\* the characters 0-9 and A-F
UpperHex == (48..57) \cup (65..70)

RECURSIVE SplitAt(_, _)
\* the pieces of text between the occurrences of sep
SplitAt(text, sep) ==
    IF \A i \in 1..Len(text) : text[i] # sep THEN <<text>>
    ELSE LET i == CHOOSE j \in 1..Len(text) :
                      text[j] = sep /\ \A k \in 1..(j - 1) : text[k] # sep
         IN  <<SubSeq(text, 1, i - 1)>> \o SplitAt(SubSeq(text, i + 1, Len(text)), sep)

RECURSIVE DecValue(_)
\* the number a sequence of decimal digits denotes
DecValue(d) ==
    IF d = <<>> THEN 0
    ELSE (10 * DecValue(SubSeq(d, 1, Len(d) - 1))) + (d[Len(d)] - 48)

\* d is the plain decimal text of the natural n: digits only, no leading zero
IsNatText(d, n) ==
    /\ Len(d) >= 1
    /\ \A i \in 1..Len(d) : d[i] \in 48..57
    /\ (Len(d) > 1 => d[1] # 48)
    /\ DecValue(d) = n

\* d is the plain decimal text of the integer n
IsDecimalOf(d, n) ==
    IF n < 0 THEN Len(d) >= 2 /\ d[1] = 45 /\ IsNatText(Tail(d), 0 - n)
    ELSE IsNatText(d, n)

\* C5: the checksum written in the sentence is the exclusive-or of the
\* characters after the leading "$" and before the "*", the "$" not included.
ChecksumSpan ==
    s # <<>> =>
        LET star == StarPos(s)
            span == SubSeq(s, 2, star - 1)
        IN  (16 * HexVal(s[star + 1])) + HexVal(s[star + 2]) = iec_checksum(span)

\* C6: the sentence is "$", talker ID and "TSA", then unique_id, vdm_link,
\* channel, utc_hhmm, start_slot and priority in this order, each after a comma,
\* the two integers in plain decimal, the strings as given, then "*", two
\* uppercase hexadecimal digits and CR LF; with link 0, channel "A" and the
\* defaults the text before "*" is "$AITSA,,0,A,,,2".
WireFormat ==
    s # <<>> =>
        LET star == StarPos(s)
            f == SplitAt(SubSeq(s, 1, star - 1), 44)
            tail == SubSeq(s, star + 1, Len(s))
        IN  /\ Len(f) = 7
            /\ f[1] = <<36>> \o sentence.talker_id \o <<84, 83, 65>>
            /\ f[2] = sentence.unique_id
            /\ IsDecimalOf(f[3], sentence.vdm_link)
            /\ f[4] = sentence.channel
            /\ f[5] = sentence.utc_hhmm
            /\ f[6] = sentence.start_slot
            /\ IsDecimalOf(f[7], sentence.priority)
            /\ Len(tail) = 4
            /\ tail[1] \in UpperHex /\ tail[2] \in UpperHex
            /\ tail[3] = 13 /\ tail[4] = 10
            /\ (sentence = TSASentence(0, <<65>>, DefaultTalkerId, EmptyStr, EmptyStr,
                                       EmptyStr, DefaultPriority)
                    => SubSeq(s, 1, star - 1) =
                        <<36, 65, 73, 84, 83, 65, 44, 44, 48, 44, 65, 44, 44, 44, 50>>)

\* a formatted sentence with empty fields, a two-digit link and a checksum
\* below 0x10
WireFormatWitness ==
    /\ s # <<>>
    /\ sentence.unique_id = EmptyStr
    /\ sentence.vdm_link > 9
    /\ s[StarPos(s) + 1] = 48

====
